---- MODULE Spec2Model ----
(***************************************************************************)
(* The two notebooks of hgrif/causality, executed top to bottom.           *)
(*                                                                         *)
(*   notebooks/01-causality-linear-simulation.ipynb                        *)
(*   notebooks/02-instrument-variables.ipynb                               *)
(*                                                                         *)
(* A kernel runs one notebook statement per step.  A numpy array is kept   *)
(* symbolically: every call of noise(n) yields a fresh, independent noise  *)
(* source, and an array is the linear combination of noise sources that    *)
(* its defining expression denotes, together with its length.  Two arrays  *)
(* are then equal row by row exactly when they are the same combination.   *)
(* A fit reports the values the least-squares coefficients take in the     *)
(* population limit, computed exactly over the rationals from the          *)
(* covariances of the columns.                                             *)
(***************************************************************************)
EXTENDS Integers, Sequences, FiniteSets, TLC

VARIABLES nb, pc, n, draws, env, G, data, df, model, results, out, bound

vars == <<nb, pc, n, draws, env, G, data, df, model, results, out, bound>>

\* Sample counts explored; the notebooks set n = 1000 and size = 1000.
MaxSamples == 3

------------------------------------------------------------------------------
(* Exact rational arithmetic.                                              *)

Abs(a) == IF a < 0 THEN -a ELSE a

RECURSIVE Gcd(_, _)
Gcd(a, b) == IF b = 0 THEN a ELSE Gcd(b, a % b)

\* The rational a/b (b # 0) in lowest terms with a positive denominator.
Q(a, b) ==
  LET g == Gcd(Abs(a), Abs(b))
      s == IF b < 0 THEN -1 ELSE 1
  IN  [num |-> (s * a) \div g, den |-> (s * b) \div g]

QInt(a) == [num |-> a, den |-> 1]
QAdd(p, q) == Q(p.num * q.den + q.num * p.den, p.den * q.den)
QSub(p, q) == Q(p.num * q.den - q.num * p.den, p.den * q.den)
QMul(p, q) == Q(p.num * q.num, p.den * q.den)
QDiv(p, q) == Q(p.num * q.den, p.den * q.num)
QAbs(p) == [num |-> Abs(p.num), den |-> p.den]
QLess(p, q) == p.num * q.den < q.num * p.den
QLeq(p, q) == p.num * q.den <= q.num * p.den
\* |p - t|: how far an estimate p is from the value t.
QDist(p, t) == QAbs(QSub(p, t))

RECURSIVE SumOver(_, _)
SumOver(S, f) ==
  IF S = {} THEN 0
  ELSE LET k == CHOOSE k \in S : TRUE IN f[k] + SumOver(S \ {k}, f)

RECURSIVE GcdOver(_, _)
GcdOver(S, f) ==
  IF S = {} THEN 0
  ELSE LET k == CHOOSE k \in S : TRUE IN Gcd(Abs(f[k]), GcdOver(S \ {k}, f))

------------------------------------------------------------------------------
(* Arrays.                                                                 *)

\* A namespace with no name bound, and a namespace with one more binding.
Empty == [k \in {} |-> 0]
Bind(f, k, v) == [z \in DOMAIN f \cup {k} |-> IF z = k THEN v ELSE f[z]]

\* An array of length len: row by row, (sum of coef[k] * source k) / den.
Array(len, coef, den) ==
  LET nz == {k \in DOMAIN coef : coef[k] # 0}
      g  == Gcd(GcdOver(nz, coef), den)
  IN  [len  |-> len,
       den  |-> den \div g,
       coef |-> [k \in nz |-> coef[k] \div g]]

\* Variance of one draw of noise(size).
NoiseVar == 1

\* noise(size): `size' draws of noise source k, independent of all others.
noise(size, k) == Array(size, [z \in {k} |-> 1], 1)

\* q * u for a rational scalar q.
Scale(q, u) ==
  Array(u.len, [k \in DOMAIN u.coef |-> q.num * u.coef[k]], q.den * u.den)

CoefAt(u, k) == IF k \in DOMAIN u.coef THEN u.coef[k] ELSE 0

\* u + v, elementwise, for arrays of one length.
Plus(u, v) ==
  Array(u.len,
        [k \in DOMAIN u.coef \cup DOMAIN v.coef |->
            CoefAt(u, k) * v.den + CoefAt(v, k) * u.den],
        u.den * v.den)

\* The array of zeros.
Zeros(len) == Array(len, Empty, 1)

\* Covariance of two arrays' entries: noise sources are independent with
\* variance NoiseVar and mean 0.
Cov(u, v) ==
  LET S == DOMAIN u.coef \cap DOMAIN v.coef
  IN  Q(NoiseVar * SumOver(S, [k \in S |-> u.coef[k] * v.coef[k]]),
        u.den * v.den)

Var(u) == Cov(u, u)

------------------------------------------------------------------------------
(* Ordinary least squares, as OLS.from_formula(formula, data=df).fit().    *)

\* 'y ~ x + a': the response, and the predictors next to the intercept.
Formula(response, predictors) ==
  [response |-> response, predictors |-> predictors]

Predictors(f) == {f.predictors[j] : j \in DOMAIN f.predictors}
Columns(f) == {f.response} \cup Predictors(f)

\* The determinant of the predictors' covariance matrix (1 or 2 predictors).
Det(X, P) ==
  IF Len(P) = 1 THEN Var(X[P[1]])
  ELSE QSub(QMul(Var(X[P[1]]), Var(X[P[2]])),
            QMul(Cov(X[P[1]], X[P[2]]), Cov(X[P[1]], X[P[2]])))

\* The design matrix [1, X] has full column rank.
FullRank(X, P) == Det(X, P).num # 0

\* The coefficients minimising the squared error of endog on [1, X]: the
\* solution of the normal equations (Cramer's rule).  All columns have mean
\* zero, so the intercept is zero.
Params(endog, X, P) ==
  LET D == Det(X, P)
      slope(j) ==
        IF Len(P) = 1 THEN QDiv(Cov(X[P[1]], endog), D)
        ELSE LET o == 3 - j
             IN  QDiv(QSub(QMul(Cov(X[P[j]], endog), Var(X[P[o]])),
                           QMul(Cov(X[P[1]], X[P[2]]), Cov(X[P[o]], endog))),
                      D)
  IN  [z \in {"Intercept"} \cup {P[j] : j \in DOMAIN P} |->
         IF z = "Intercept" THEN QInt(0)
         ELSE slope(CHOOSE j \in DOMAIN P : P[j] = z)]

\* model = OLS.from_formula(formula, data=frame): the design is taken from
\* the frame's columns as they are at this call.
from_formula(formula, frame) ==
  [formula |-> formula,
   endog   |-> frame[formula.response],
   exog    |-> [z \in Predictors(formula) |-> frame[z]]]

\* results = model.fit().  A rank-deficient design is never reached by the
\* notebooks; the coefficients the library would report for it are left
\* out (no params).
fit(m) ==
  [formula |-> m.formula,
   params  |-> IF FullRank(m.exog, m.formula.predictors)
               THEN Params(m.endog, m.exog, m.formula.predictors)
               ELSE Empty]

------------------------------------------------------------------------------
(* networkx.DiGraph: a set of edges, each with its coeff attribute.        *)

DiGraph == {}

add_edge(g, u, v, coeff) ==
  {e \in g : ~(e.u = u /\ e.v = v)} \cup {[u |-> u, v |-> v, coeff |-> coeff]}

Nodes(g) == {e.u : e \in g} \cup {e.v : e \in g}
Parents(g, v) == {e.u : e \in {d \in g : d.v = v}}

------------------------------------------------------------------------------
(* Statements.                                                             *)

\* target = c1 * v1 + c2 * v2 + ... + scale * noise(n)
Assign(target, terms, scale) ==
  [op |-> "assign", target |-> target, terms |-> terms, scale |-> scale]

\* G.add_edge(u, v, coeff=coeff)
Edge(u, v, coeff) == [op |-> "add_edge", u |-> u, v |-> v, coeff |-> coeff]

\* G = nx.DiGraph()
NewGraph == [op |-> "graph"]

\* n = 1000, size = 1000
SetSize == [op |-> "size"]

\* draw_graph(G), df.sample(5), sns.pairplot(df), plt.imshow(df.corr(...)):
\* a statement that only reads the named global and displays it.
Show(name) == [op |-> "show", name |-> name]

\* data = dict(c=c, a=a, ...)
Dict(keys) == [op |-> "dict", keys |-> keys]

\* df = pd.DataFrame(data)
Frame == [op |-> "frame"]

\* model = OLS.from_formula(formula, data=df)
FromFormula(formula) == [op |-> "formula", formula |-> formula]

\* results = model.fit()
Fit == [op |-> "fit"]

\* results.params as a cell's last expression (all of it, or one entry).
ShowParams(keys) == [op |-> "params", keys |-> keys]

\* df[target] = df[source] * results.params[param]
Derive(target, source, param) ==
  [op |-> "derive", target |-> target, source |-> source, param |-> param]

------------------------------------------------------------------------------
(* Notebook 01: causality, linear simulation.                              *)

Graph01 ==
  << NewGraph,
     Edge("c", "x", 5),
     Edge("a", "x", 2),
     Edge("a", "k", -3),
     Edge("x", "f", 6),
     Edge("x", "d", -2),
     Edge("d", "g", -8),
     Edge("k", "y", 3),
     Edge("d", "y", 5),
     Edge("y", "h", -4),
     Show("G") >>

\* Equations01 with the sign of d's coefficient on x lost.
Equations01_SignLost ==
  << SetSize,
     Assign("c", << >>, 1),
     Assign("a", << >>, 1),
     Assign("x", << <<5, "c">>, <<2, "a">> >>, 1),
     Assign("k", << <<-3, "a">> >>, 1),
     Assign("f", << <<6, "x">> >>, 1),
     Assign("d", << <<2, "x">> >>, 1),
     Assign("g", << <<-8, "d">> >>, 1),
     Assign("y", << <<3, "k">>, <<5, "d">> >>, 1),
     Assign("h", << <<-4, "y">> >>, 1) >>

Equations01 ==
  << SetSize,
     Assign("c", << >>, 1),
     Assign("a", << >>, 1),
     Assign("x", << <<5, "c">>, <<2, "a">> >>, 1),
     Assign("k", << <<-3, "a">> >>, 1),
     Assign("f", << <<6, "x">> >>, 1),
     Assign("d", << <<-2, "x">> >>, 1),
     Assign("g", << <<-8, "d">> >>, 1),
     Assign("y", << <<3, "k">>, <<5, "d">> >>, 1),
     Assign("h", << <<-4, "y">> >>, 1) >>

Data01 == Dict({"c", "a", "x", "k", "f", "d", "g", "y", "h"})

Table01 == << Data01, Frame, Show("df") >>

Plots01 == << Show("df"), Show("df"), Show("G") >>

NaiveFormula01 == Formula("y", <<"x">>)
AdjustA01 == Formula("y", <<"x", "a">>)
AdjustK01 == Formula("y", <<"x", "k">>)
\* AdjustG01 conditioning on a, which is on the confounding path.
AdjustG01_OnPath == Formula("y", <<"x", "a">>)
AdjustG01 == Formula("y", <<"x", "g">>)

Regression(formula) ==
  << FromFormula(formula), Fit, ShowParams(Predictors(formula) \cup {"Intercept"}) >>

Notebook01 ==
  Graph01 \o Equations01 \o Table01 \o Plots01
    \o Regression(NaiveFormula01) \o Regression(AdjustA01)
    \o Regression(AdjustK01) \o Regression(AdjustG01)

------------------------------------------------------------------------------
(* Notebook 02: instrument variables.                                      *)

gamma == 2
alpha == 3
beta == 1
delta == -1

\* Equations02 with the coefficients of i and h in x exchanged.
Equations02_SwappedCoeffs ==
  << SetSize,
     Assign("h", << >>, 2),
     Assign("i", << >>, 4),
     Assign("x", << <<beta, "i">>, <<delta, "h">> >>, 2),
     Assign("y", << <<gamma, "h">>, <<alpha, "x">> >>, 3) >>

\* Equations02 with x computed before the instrument i.
Equations02_Misordered ==
  << SetSize,
     Assign("h", << >>, 2),
     Assign("x", << <<delta, "i">>, <<beta, "h">> >>, 2),
     Assign("i", << >>, 4),
     Assign("y", << <<gamma, "h">>, <<alpha, "x">> >>, 3) >>

Equations02 ==
  << SetSize,
     Assign("h", << >>, 2),
     Assign("i", << >>, 4),
     Assign("x", << <<delta, "i">>, <<beta, "h">> >>, 2),
     Assign("y", << <<gamma, "h">>, <<alpha, "x">> >>, 3) >>

Graph02 ==
  << NewGraph,
     Edge("x", "y", alpha),
     Edge("h", "y", gamma),
     Edge("h", "x", beta),
     Edge("i", "x", delta),
     Show("G") >>

\* Data02 without the hidden variable.
Data02_NoHidden == Dict({"x", "i", "y"})
Data02 == Dict({"x", "i", "h", "y"})

Table02 == << Data02, Frame >>

NaiveFormula02 == Formula("y", <<"x">>)
\* FirstStage02 with the instrument regressed on the treatment.
FirstStage02_Reversed == Formula("i", <<"x">>)
FirstStage02 == Formula("x", <<"i">>)
SecondStage02 == Formula("y", <<"delta_i">>)

\* Derived02 scaling the treatment column instead of the instrument.
Derived02_FromX == Derive("delta_i", "x", "i")
\* Derived02 writing over the instrument column.
Derived02_Overwrite == Derive("i", "i", "i")
\* df['delta_i'] = df['i'] * results.params['i']
Derived02 == Derive("delta_i", "i", "i")

Notebook02 ==
  Equations02 \o Graph02 \o Table02
    \o Regression(NaiveFormula02)
    \o << FromFormula(FirstStage02), Fit, ShowParams({"i"}) >>
    \o << Derived02 >>
    \o Regression(SecondStage02)

Notebook(b) == IF b = 1 THEN Notebook01 ELSE Notebook02

------------------------------------------------------------------------------
(* The kernel.  pc is the statement to run next; pc = 0 after a statement  *)
(* raised (a name or a column that is not there), which ends the run.      *)
(* `bound' holds the global names bound so far other than the arrays,      *)
(* which env binds.                                                        *)

Init ==
  /\ nb \in {1, 2}
  /\ pc = 1
  /\ n = 0
  /\ draws = 0
  /\ env = Empty
  /\ G = {}
  /\ data = Empty
  /\ df = Empty
  /\ model = Empty
  /\ results = Empty
  /\ out = << >>
  /\ bound = {}

Running == pc \in 1..Len(Notebook(nb))
Stmt == Notebook(nb)[pc]
At(op) == Running /\ Stmt.op = op
Done == pc = Len(Notebook(nb)) + 1

Raise(unchanged) == pc' = 0 /\ UNCHANGED unchanged

\* c1 * v1 + c2 * v2 + ... over the arrays of e, left to right.
RECURSIVE TermSum(_, _, _)
TermSum(terms, e, len) ==
  IF terms = << >> THEN Zeros(len)
  ELSE Plus(TermSum(SubSeq(terms, 1, Len(terms) - 1), e, len),
            Scale(QInt(terms[Len(terms)][1]), e[terms[Len(terms)][2]]))

TermVars(terms) == {terms[j][2] : j \in DOMAIN terms}

RunGraph ==
  /\ At("graph")
  /\ G' = DiGraph
  /\ bound' = bound \cup {"G"}
  /\ pc' = pc + 1
  /\ UNCHANGED <<nb, n, draws, env, data, df, model, results, out>>

RunAddEdge ==
  /\ At("add_edge")
  /\ IF "G" \in bound
     THEN /\ G' = add_edge(G, Stmt.u, Stmt.v, Stmt.coeff)
          /\ pc' = pc + 1
          /\ UNCHANGED <<nb, n, draws, env, data, df, model, results, out, bound>>
     ELSE Raise(<<nb, n, draws, env, G, data, df, model, results, out, bound>>)

RunShow ==
  /\ At("show")
  /\ IF Stmt.name \in bound
     THEN /\ pc' = pc + 1
          /\ UNCHANGED <<nb, n, draws, env, G, data, df, model, results, out, bound>>
     ELSE Raise(<<nb, n, draws, env, G, data, df, model, results, out, bound>>)

RunSize ==
  /\ At("size")
  /\ \E size \in 1..MaxSamples : n' = size
  /\ bound' = bound \cup {"n"}
  /\ pc' = pc + 1
  /\ UNCHANGED <<nb, draws, env, G, data, df, model, results, out>>

RunAssign ==
  /\ At("assign")
  /\ IF TermVars(Stmt.terms) \subseteq DOMAIN env /\ "n" \in bound
     THEN /\ env' = Bind(env, Stmt.target,
                         Plus(TermSum(Stmt.terms, env, n),
                              Scale(QInt(Stmt.scale), noise(n, draws + 1))))
          /\ draws' = draws + 1
          /\ pc' = pc + 1
          /\ UNCHANGED <<nb, n, G, data, df, model, results, out, bound>>
     ELSE Raise(<<nb, n, draws, env, G, data, df, model, results, out, bound>>)

RunDict ==
  /\ At("dict")
  /\ IF Stmt.keys \subseteq DOMAIN env
     THEN /\ data' = [z \in Stmt.keys |-> env[z]]
          /\ bound' = bound \cup {"data"}
          /\ pc' = pc + 1
          /\ UNCHANGED <<nb, n, draws, env, G, df, model, results, out>>
     ELSE Raise(<<nb, n, draws, env, G, data, df, model, results, out, bound>>)

RunFrame ==
  /\ At("frame")
  /\ IF "data" \in bound /\ \A y, z \in DOMAIN data : data[y].len = data[z].len
     THEN /\ df' = data
          /\ bound' = bound \cup {"df"}
          /\ pc' = pc + 1
          /\ UNCHANGED <<nb, n, draws, env, G, data, model, results, out>>
     ELSE Raise(<<nb, n, draws, env, G, data, df, model, results, out, bound>>)

RunFormula ==
  /\ At("formula")
  /\ IF "df" \in bound /\ Columns(Stmt.formula) \subseteq DOMAIN df
     THEN /\ model' = from_formula(Stmt.formula, df)
          /\ bound' = bound \cup {"model"}
          /\ pc' = pc + 1
          /\ UNCHANGED <<nb, n, draws, env, G, data, df, results, out>>
     ELSE Raise(<<nb, n, draws, env, G, data, df, model, results, out, bound>>)

RunFit ==
  /\ At("fit")
  /\ IF "model" \in bound
     THEN /\ results' = fit(model)
          /\ bound' = bound \cup {"results"}
          /\ pc' = pc + 1
          /\ UNCHANGED <<nb, n, draws, env, G, data, df, model, out>>
     ELSE Raise(<<nb, n, draws, env, G, data, df, model, results, out, bound>>)

RunParams ==
  /\ At("params")
  /\ IF "results" \in bound /\ Stmt.keys \subseteq DOMAIN results.params
     THEN /\ out' = Append(out, [formula |-> results.formula,
                                 params  |-> [z \in Stmt.keys |-> results.params[z]]])
          /\ pc' = pc + 1
          /\ UNCHANGED <<nb, n, draws, env, G, data, df, model, results, bound>>
     ELSE Raise(<<nb, n, draws, env, G, data, df, model, results, out, bound>>)

RunDerive ==
  /\ At("derive")
  /\ IF /\ {"df", "results"} \subseteq bound
        /\ Stmt.source \in DOMAIN df
        /\ Stmt.param \in DOMAIN results.params
     THEN /\ df' = Bind(df, Stmt.target,
                        Scale(results.params[Stmt.param], df[Stmt.source]))
          /\ pc' = pc + 1
          /\ UNCHANGED <<nb, n, draws, env, G, data, model, results, out, bound>>
     ELSE Raise(<<nb, n, draws, env, G, data, df, model, results, out, bound>>)

Next ==
  \/ RunGraph
  \/ RunAddEdge
  \/ RunShow
  \/ RunSize
  \/ RunAssign
  \/ RunDict
  \/ RunFrame
  \/ RunFormula
  \/ RunFit
  \/ RunParams
  \/ RunDerive

Spec == Init /\ [][Next]_vars

------------------------------------------------------------------------------
(* What the claims read.                                                   *)

\* The statement numbers of notebook b with the given op.
StmtsOf(b, op) == {j \in DOMAIN Notebook(b) : Notebook(b)[j].op = op}

\* Every G.add_edge of the notebook has run.
GraphBuilt == \A j \in StmtsOf(nb, "add_edge") : pc > j

\* df = pd.DataFrame(data) has just run.
FrameJustBuilt == \E j \in StmtsOf(nb, "frame") : pc = j + 1

\* The graph the notebook declares, whenever it declares it.
RECURSIVE DeclaredUpTo(_, _)
DeclaredUpTo(b, j) ==
  IF j = 0 THEN DiGraph
  ELSE LET s == Notebook(b)[j]
           g == DeclaredUpTo(b, j - 1)
       IN  IF s.op = "add_edge" THEN add_edge(g, s.u, s.v, s.coeff) ELSE g

Declared(b) == DeclaredUpTo(b, Len(Notebook(b)))

\* sum over the edges E into one node of coeff * value(parent)
RECURSIVE EdgeSum(_, _, _)
EdgeSum(E, e, len) ==
  IF E = {} THEN Zeros(len)
  ELSE LET d == CHOOSE d \in E : TRUE
       IN  Plus(Scale(QInt(d.coeff), e[d.u]), EdgeSum(E \ {d}, e, len))

\* value(v) minus the contribution of v's parents in g.
Residual(g, e, v) ==
  Plus(e[v], Scale(QInt(-1), EdgeSum({d \in g : d.v = v}, e, e[v].len)))

\* Sewall Wright's path rule: the sum over the directed paths from u to v
\* of the product of the coefficients along the path (g is acyclic).
RECURSIVE PathEffect(_, _, _)
RECURSIVE PathEffectVia(_, _, _)
PathEffect(g, u, v) ==
  IF u = v THEN 1 ELSE PathEffectVia(g, {d \in g : d.u = u}, v)
PathEffectVia(g, E, v) ==
  IF E = {} THEN 0
  ELSE LET d == CHOOSE d \in E : TRUE
       IN  d.coeff * PathEffect(g, d.v, v) + PathEffectVia(g, E \ {d}, v)

------------------------------------------------------------------------------
(* Claims.                                                                 *)

\* C1: once the graph is declared, every simulated node is a node of G, its
\* parents in G have values, and its value minus the sum over its parents p
\* in G of coeff(p -> v) * value(p) is exactly one noise source, which no
\* other node shares: the equations carry a term c * p for every edge and
\* for nothing else, and a node without parents is noise only.
StructuralEquationsMatchGraph ==
  GraphBuilt =>
    \A v \in DOMAIN env :
      /\ v \in Nodes(G)
      /\ Parents(G, v) \subseteq DOMAIN env
      /\ Cardinality(DOMAIN Residual(G, env, v).coef) = 1
      /\ Parents(G, v) = {} => Residual(G, env, v) = env[v]
      /\ \A w \in DOMAIN env \ {v} :
           Parents(G, w) \subseteq DOMAIN env =>
             DOMAIN Residual(G, env, w).coef # DOMAIN Residual(G, env, v).coef

\* C1 witness: notebook 01 with its nine nodes simulated and G declared.
AllNodesSimulated01 ==
  /\ nb = 1
  /\ GraphBuilt
  /\ DOMAIN env = Nodes(G)
  /\ Cardinality(DOMAIN env) = 9
  /\ Cardinality(DOMAIN env["y"].coef) > 1

\* C2: whenever an assignment of a node runs, every parent of the node in
\* the graph the notebook declares already has a value, and the assignment
\* succeeds: the statements come in a topological order of the graph.
TopologicalOrder ==
  [][At("assign") =>
       /\ Parents(Declared(nb), Stmt.target) \subseteq DOMAIN env
       /\ pc' = pc + 1
       /\ Stmt.target \in DOMAIN env']_vars

\* C2 witness: a node with two parents (y in notebook 01) has been computed.
ChildComputedAfterParents ==
  /\ nb = 1
  /\ "y" \in DOMAIN env
  /\ Parents(Declared(nb), "y") = {"k", "d"}
  /\ pc # 0

\* C3: in notebook 02 the instrument is uncorrelated with the confounder,
\* the coefficient of the second stage (y on delta_hat * i) is alpha, the
\* coefficient of the naive fit of y on x is not, and the former is closer
\* to alpha than the latter.
TwoStageRecoversAlpha ==
  (nb = 2 /\ Done) =>
    /\ Len(out) = 3
    /\ out[1].formula = Formula("y", <<"x">>)
    /\ out[3].formula = Formula("y", <<"delta_i">>)
    /\ Cov(df["i"], df["h"]) = QInt(0)
    /\ out[3].params["delta_i"] = QInt(alpha)
    /\ out[1].params["x"] # QInt(alpha)
    /\ QLess(QDist(out[3].params["delta_i"], QInt(alpha)),
             QDist(out[1].params["x"], QInt(alpha)))

\* C3 witness: notebook 02 has run to its end and the naive estimate shown
\* is off alpha.
TwoStageShown ==
  /\ nb = 2
  /\ Done
  /\ Len(out) = 3
  /\ QLess(QInt(alpha), out[1].params["x"])

OffPathConditioningNoBetter ==
  (nb = 1 /\ Done) =>
    /\ out[1].formula = Formula("y", <<"x">>)
    /\ out[4].formula = Formula("y", <<"x", "g">>)
    /\ out[1].params["x"] # QInt(-10)
    /\ QLeq(QDist(out[1].params["x"], QInt(-10)),
            QDist(out[4].params["x"], QInt(-10)))

\* C5 witness: notebook 01 at its end, with the fit on x and g strictly
\* further from -10 than the naive fit.
OffPathFitShown ==
  /\ nb = 1
  /\ Done
  /\ out[4].formula = Formula("y", <<"x", "g">>)
  /\ QLess(QDist(out[1].params["x"], QInt(-10)),
           QDist(out[4].params["x"], QInt(-10)))

FrameShape ==
  FrameJustBuilt =>
    /\ n > 0
    /\ GraphBuilt
    /\ DOMAIN df = Nodes(G)
    /\ Cardinality(DOMAIN df) = IF nb = 1 THEN 9 ELSE 4
    /\ \A z \in DOMAIN df : df[z].len = n

\* C9 witness: df has just been built with more than one row.
FrameBuilt ==
  /\ FrameJustBuilt
  /\ "df" \in bound
  /\ n > 1
  /\ DOMAIN df # {}

------------------------------------------------------------------------------
(* The cases the notebooks never reach.                                    *)

\* The nodes reachable from v along at least one edge of g, in at most
\* `steps' further edges.
RECURSIVE Reach(_, _, _)
Reach(g, S, steps) ==
  LET T == S \cup {d.v : d \in {e \in g : e.u \in S}}
  IN  IF steps = 0 \/ T = S THEN S ELSE Reach(g, T, steps - 1)

Acyclic(g) ==
  \A v \in Nodes(g) :
    v \notin Reach(g, {d.v : d \in {e \in g : e.u = v}}, Cardinality(g))

\* G never holds a cycle: the edge lists of both notebooks are fixed and
\* acyclic, and no statement checks for a cycle or raises on one.
GraphAcyclic == Acyclic(G)

\* Every design handed to fit() has full column rank, so the notebooks
\* never fit a rank-deficient design.
DesignsFullRank ==
  ("model" \in bound) => FullRank(model.exog, model.formula.predictors)

====
